---- MODULE Spec2Model ----
(***************************************************************************)
(* The UMI clustering engine of umi_tools/network.py: UMIClusterer (the    *)
(* strategy functor) and ReadClusterer (its wrapper for read bundles).     *)
(*                                                                         *)
(* A barcode (UMI) is a sequence of letters.  A Python collection of       *)
(* barcodes (dict keys, set) is modelled by its elements together with the *)
(* order in which the process iterates them: the variable umis is          *)
(* bundle.keys() in iteration order, and every set of barcodes built       *)
(* during a call iterates in the order induced by it.  The order is        *)
(* arbitrary: every order of every bundle is an initial state.             *)
(***************************************************************************)
EXTENDS Integers, Sequences, FiniteSets, TLC

\* Bounds of the model.
MaxUmis == 4          \* barcodes in one bundle
MaxMixedUmis == 2     \* barcodes in a bundle that mixes barcode lengths
MaxCount == 2         \* low read counts are 1..MaxCount
BigCount == 200       \* one high read count (a dominant barcode)
MaxThreshold == 2     \* thresholds are 0..MaxThreshold
MaxNodes == 3         \* keys of an adjacency structure searched step by step
MaxEdges == 4         \* neighbour-list entries of that structure, in all

AAA == <<"A", "A", "A">>
AAT == <<"A", "A", "T">>
ACC == <<"A", "C", "C">>
CCC == <<"C", "C", "C">>
AA == <<"A", "A">>

\* The barcodes of equal length a bundle is drawn from, and one shorter one.
Barcodes == {AAA, AAT, ACC, CCC}
ShortBarcodes == {AA}

Counts == (1..MaxCount) \cup {BigCount}
Thresholds == 0..MaxThreshold

\* The names a clusterer is constructed with: the five strategies and one
\* name that is none of them.
Strategies == {"unique", "directional", "adjacency", "cluster", "percentile"}
MethodNames == Strategies \cup {"other"}

Range(s) == {s[i] : i \in DOMAIN s}

Injective(s) == \A i, j \in DOMAIN s : i # j => s[i] # s[j]

\* Python's None, and an attribute that was never assigned.
None == <<>>
Unbound == "unbound"

VARIABLES
  pc,            \* "new", "constructed", "returned", "raised"
  self,          \* the attributes of the UMIClusterer held by the ReadClusterer
  umis,          \* bundle.keys(), in iteration order
  bundle,        \* barcode -> [count, read]
  threshold,     \* arguments of the last call
  deduplicate,
  raised,        \* the exception the last call ended with, or "none"
  reached,       \* the last statement of UMIClusterer.__call__ that ran
  adj_list,      \* locals of UMIClusterer.__call__
  clusters,
  groups,        \* what UMIClusterer.__call__ returned
  reads,         \* what ReadClusterer.__call__ returned
  final_umis,
  umi_counts,
  search         \* a breadth_first_search in progress: its arguments and locals

vars == <<pc, self, umis, bundle, threshold, deduplicate, raised, reached,
          adj_list, clusters, groups, reads, final_umis, umi_counts, search>>

(***************************************************************************)
(* Helpers: iteration, sorting, distance.                                  *)
(***************************************************************************)

\* list(s) for a set s of barcodes: its elements in iteration order.
list(s, order) == SelectSeq(order, LAMBDA x : x \in s)

\* sorted(xs, key=lambda x: counts[x], reverse=True): descending by count;
\* the sort is stable, so equal counts keep the order they have in xs.
RECURSIVE sorted(_, _)
sorted(xs, counts) ==
  IF xs = <<>> THEN <<>>
  ELSE LET x == Head(xs)
           rest == sorted(Tail(xs), counts)
       IN SelectSeq(rest, LAMBDA y : counts[y] > counts[x])
            \o <<x>>
            \o SelectSeq(rest, LAMBDA y : counts[y] <= counts[x])

\* edit_distance(a, b) of _dedup_umi: the number of positions at which two
\* barcodes of equal length differ.  It is defined for equal lengths only,
\* which __call__ asserts before any pair is compared; a position past the
\* end of b is counted as differing.
edit_distance(a, b) ==
  Cardinality({k \in 1..Len(a) : k > Len(b) \/ a[k] # b[k]})

\* sum(counts[umi] for umi in cluster)
RECURSIVE sum_counts(_, _)
sum_counts(cluster, counts) ==
  IF cluster = <<>> THEN 0
  ELSE counts[Head(cluster)] + sum_counts(Tail(cluster), counts)

Min(S) == CHOOSE x \in S : \A y \in S : x <= y

Max(S) == CHOOSE x \in S : \A y \in S : x >= y

(***************************************************************************)
(* breadth_first_search and remove_umis.                                   *)
(***************************************************************************)

\* The while loop of breadth_first_search; node = (list(queue))[0].
RECURSIVE bfs_loop(_, _, _, _, _)
bfs_loop(searched, found, queue, adj, order) ==
  IF queue = {} THEN found
  ELSE LET node == Head(list(queue, order))
           searched2 == searched \cup {node}
       IN bfs_loop(searched2,
                   found \cup Range(adj[node]),
                   (queue \cup Range(adj[node])) \ searched2,
                   adj, order)

breadth_first_search(node, adj, order) ==
  bfs_loop({}, {node}, {node}, adj, order)

\* As remove_umis, removing the neighbours of the nodes but not the nodes.
remove_umis_keep_nodes(adj, cluster, nodes) ==
  cluster \ UNION {Range(adj[x]) : x \in Range(nodes)}

\* remove_umis(adj_list, cluster, nodes): the cluster without the nodes and
\* without everything in their neighbour lists.
remove_umis(adj, cluster, nodes) ==
  cluster \ (UNION {Range(adj[x]) : x \in Range(nodes)} \cup Range(nodes))

(***************************************************************************)
(* "get_best" methods.                                                     *)
(***************************************************************************)

\* Returns None when no prefix of length < len(cluster) accounts for the
\* cluster (the for loop falls through); a returned list is never empty.
_get_best_min_account(cluster, adj, counts, order) ==
  IF Cardinality(cluster) = 1 THEN list(cluster, order)
  ELSE LET sorted_nodes == sorted(list(cluster, order), counts)
           hits == {i \in 0..(Len(sorted_nodes) - 2) :
                      remove_umis(adj, cluster,
                                  SubSeq(sorted_nodes, 1, i + 1)) = {}}
       IN IF hits = {} THEN None
          ELSE SubSeq(sorted_nodes, 1, Min(hits) + 1)

\* 2 * np.median(list(counts.values())): counts has one entry per barcode
\* of the call, so the values are those of cluster = umis.
median2(cluster, counts) ==
  LET s == sorted(cluster, counts)
      n == Len(s)
  IN IF n % 2 = 1 THEN 2 * counts[s[(n + 1) \div 2]]
     ELSE counts[s[n \div 2]] + counts[s[(n \div 2) + 1]]

\* counts[read] > median / 100, in integers: 200 * counts[read] > 2 * median.
_get_best_percentile(cluster, counts) ==
  IF Len(cluster) = 1 THEN cluster
  ELSE SelectSeq(cluster,
                 LAMBDA read : 200 * counts[read] > median2(cluster, counts))

(***************************************************************************)
(* "get_adj_list" methods.  itertools.combinations(umis, 2) yields the     *)
(* pairs (umis[i], umis[j]), i < j, in lexicographic order, so the list    *)
(* of a barcode receives its partners in the order they have in umis.      *)
(***************************************************************************)

\* As _get_adj_list_adjacency, linking only pairs at exactly the threshold.
_get_adj_list_adjacency_exact(us, counts, t) ==
  [umi1 \in Range(us) |->
     SelectSeq(us, LAMBDA umi2 :
       umi2 # umi1 /\ edit_distance(umi1, umi2) = t)]

_get_adj_list_adjacency(us, counts, t) ==
  [umi1 \in Range(us) |->
     SelectSeq(us, LAMBDA umi2 :
       umi2 # umi1 /\ edit_distance(umi1, umi2) <= t)]

\* As _get_adj_list_directional, with a strict count comparison.
_get_adj_list_directional_strict(us, counts, t) ==
  [umi1 \in Range(us) |->
     SelectSeq(us, LAMBDA umi2 :
       /\ umi2 # umi1
       /\ edit_distance(umi1, umi2) <= t
       /\ counts[umi1] > (counts[umi2] * 2) - 1)]

_get_adj_list_directional(us, counts, t) ==
  [umi1 \in Range(us) |->
     SelectSeq(us, LAMBDA umi2 :
       /\ umi2 # umi1
       /\ edit_distance(umi1, umi2) <= t
       /\ counts[umi1] >= (counts[umi2] * 2) - 1)]

_get_adj_list_null(us, counts, t) == None

(***************************************************************************)
(* "get_connected_components" methods.                                     *)
(***************************************************************************)

\* The for loop over sorted(graph, ...): found and components grow.
RECURSIVE components_loop(_, _, _, _, _)
components_loop(nodes, found, components, graph, order) ==
  IF nodes = <<>> THEN components
  ELSE IF Head(nodes) \in found
       THEN components_loop(Tail(nodes), found, components, graph, order)
       ELSE LET component == breadth_first_search(Head(nodes), graph, order)
            IN components_loop(Tail(nodes), found \cup component,
                               Append(components, component), graph, order)

\* As _get_connected_components_adjacency, searching from every node.
_get_connected_components_every_node(us, graph, counts) ==
  LET nodes == sorted(us, counts)
  IN [i \in 1..Len(nodes) |-> breadth_first_search(nodes[i], graph, us)]

\* graph is a dict filled in the order of umis, which is how it iterates.
_get_connected_components_adjacency(us, graph, counts) ==
  components_loop(sorted(us, counts), {}, <<>>, graph, us)

_get_connected_components_null(us, adj, counts) == us

(***************************************************************************)
(* "group" methods.  Each returns the list of groups; __call__ turns every *)
(* group into a list.                                                      *)
(***************************************************************************)

\* As _group_unique, taking the one-group branch for every input.
_group_unique_one_group(cls, adj, counts) ==
  IF Len(cls) >= 1 THEN <<cls>>
  ELSE [i \in 1..Len(cls) |-> <<cls[i]>>]

\* clusters is the collection of barcodes itself (the null component
\* finder returned umis).  [clusters] holds that collection as its one
\* group, which __call__'s list(x) turns into the list of its barcodes.
_group_unique(cls, adj, counts) ==
  IF Len(cls) = 1 THEN <<cls>>
  ELSE [i \in 1..Len(cls) |-> <<cls[i]>>]

\* The for loop of _group_directional: observed and groups grow.
RECURSIVE directional_loop(_, _, _, _, _)
directional_loop(cls, observed, grps, counts, order) ==
  IF cls = <<>> THEN grps
  ELSE LET cluster == Head(cls)
           temp_cluster ==
             IF Cardinality(cluster) = 1 THEN list(cluster, order)
             ELSE SelectSeq(sorted(list(cluster, order), counts),
                            LAMBDA node : node \notin observed)
       IN directional_loop(Tail(cls), observed \cup cluster,
                           Append(grps, temp_cluster), counts, order)

\* As _group_directional, without the removal of observed nodes.
_group_directional_keep_observed(cls, adj, counts, order) ==
  [i \in 1..Len(cls) |-> sorted(list(cls[i], order), counts)]

_group_directional(cls, adj, counts, order) ==
  directional_loop(cls, {}, <<>>, counts, order)

\* The inner for loop of _group_adjacency over the lead umis of a cluster.
RECURSIVE lead_loop(_, _, _, _, _)
lead_loop(lead_umis, observed, grps, adj, order) ==
  IF lead_umis = <<>> THEN grps
  ELSE LET lead_umi == Head(lead_umis)
           connected_nodes == Range(adj[lead_umi])
       IN lead_loop(Tail(lead_umis), observed \cup connected_nodes,
                    Append(grps, <<lead_umi>>
                                   \o list(connected_nodes \ observed, order)),
                    adj, order)

RECURSIVE adjacency_loop(_, _, _, _, _)
adjacency_loop(cls, grps, adj, counts, order) ==
  IF cls = <<>> THEN grps
  ELSE LET cluster == Head(cls)
           lead_umis == _get_best_min_account(cluster, adj, counts, order)
       IN adjacency_loop(
            Tail(cls),
            IF Cardinality(cluster) = 1
            THEN Append(grps, list(cluster, order))
            ELSE lead_loop(lead_umis, Range(lead_umis), grps, adj, order),
            adj, counts, order)

_group_adjacency(cls, adj, counts, order) ==
  adjacency_loop(cls, <<>>, adj, counts, order)

\* observed.update(lead_umis) raises TypeError when lead_umis is None.
group_adjacency_raises(cls, adj, counts, order) ==
  \E i \in 1..Len(cls) :
    /\ Cardinality(cls[i]) # 1
    /\ _get_best_min_account(cls[i], adj, counts, order) = None

\* As _group_cluster, without the sort.
_group_cluster_unsorted(cls, adj, counts, order) ==
  [i \in 1..Len(cls) |-> list(cls[i], order)]

_group_cluster(cls, adj, counts, order) ==
  [i \in 1..Len(cls) |-> sorted(list(cls[i], order), counts)]

\* self.get_best is _get_best_percentile whenever this is get_groups.
_group_percentile(cls, adj, counts) ==
  LET retained_umis == _get_best_percentile(cls, counts)
  IN [i \in 1..Len(retained_umis) |-> <<retained_umis[i]>>]

(***************************************************************************)
(* UMIClusterer.__init__ and __call__.                                     *)
(***************************************************************************)

NoAttributes ==
  [cluster_method |-> Unbound, get_adj_list |-> Unbound,
   get_connected_components |-> Unbound, get_best |-> Unbound,
   reduce_clusters |-> Unbound, get_groups |-> Unbound]

\* The attributes __init__ assigns; a name that matches no branch assigns
\* none, and __init__ returns normally.
UMIClusterer_init(cluster_method) ==
  CASE cluster_method = "adjacency" ->
         [cluster_method |-> cluster_method,
          get_adj_list |-> "_get_adj_list_adjacency",
          get_connected_components |-> "_get_connected_components_adjacency",
          get_best |-> "_get_best_min_account",
          reduce_clusters |-> "_reduce_clusters_multiple",
          get_groups |-> "_group_adjacency"]
    [] cluster_method = "directional" ->
         [cluster_method |-> cluster_method,
          get_adj_list |-> "_get_adj_list_directional",
          get_connected_components |-> "_get_connected_components_adjacency",
          get_best |-> "_get_best_higher_counts",
          reduce_clusters |-> "_reduce_clusters_single",
          get_groups |-> "_group_directional"]
    [] cluster_method = "cluster" ->
         [cluster_method |-> cluster_method,
          get_adj_list |-> "_get_adj_list_adjacency",
          get_connected_components |-> "_get_connected_components_adjacency",
          get_best |-> "_get_best_higher_counts",
          reduce_clusters |-> "_reduce_clusters_single",
          get_groups |-> "_group_cluster"]
    [] cluster_method = "percentile" ->
         [cluster_method |-> cluster_method,
          get_adj_list |-> "_get_adj_list_null",
          get_connected_components |-> "_get_connected_components_null",
          get_best |-> "_get_best_percentile",
          reduce_clusters |-> "_reduce_clusters_no_network",
          get_groups |-> "_group_percentile"]
    [] cluster_method = "unique" ->
         [cluster_method |-> cluster_method,
          get_adj_list |-> "_get_adj_list_null",
          get_connected_components |-> "_get_connected_components_null",
          get_best |-> "_get_best_null",
          reduce_clusters |-> "_reduce_clusters_no_network",
          get_groups |-> "_group_unique"]
    [] OTHER -> [NoAttributes EXCEPT !.cluster_method = cluster_method]

\* self.get_adj_list(umis, counts, threshold)
get_adj_list(slf, us, counts, t) ==
  CASE slf.get_adj_list = "_get_adj_list_adjacency" ->
         _get_adj_list_adjacency(us, counts, t)
    [] slf.get_adj_list = "_get_adj_list_directional" ->
         _get_adj_list_directional(us, counts, t)
    [] slf.get_adj_list = "_get_adj_list_null" ->
         _get_adj_list_null(us, counts, t)

\* self.get_connected_components(umis, adj_list, counts)
get_connected_components(slf, us, adj, counts) ==
  CASE slf.get_connected_components = "_get_connected_components_adjacency" ->
         _get_connected_components_adjacency(us, adj, counts)
    [] slf.get_connected_components = "_get_connected_components_null" ->
         _get_connected_components_null(us, adj, counts)

\* self.get_groups(clusters, adj_list, counts)
get_groups(slf, cls, adj, counts, order) ==
  CASE slf.get_groups = "_group_unique" -> _group_unique(cls, adj, counts)
    [] slf.get_groups = "_group_directional" ->
         _group_directional(cls, adj, counts, order)
    [] slf.get_groups = "_group_adjacency" ->
         _group_adjacency(cls, adj, counts, order)
    [] slf.get_groups = "_group_cluster" ->
         _group_cluster(cls, adj, counts, order)
    [] slf.get_groups = "_group_percentile" ->
         _group_percentile(cls, adj, counts)

\* assert max(len_umis) == min(len_umis)
lengths_agree_always(len_umis) == Max(len_umis) >= Min(len_umis)

lengths_agree(len_umis) == Max(len_umis) = Min(len_umis)

\* How a call that raised ends: the exception, the statement that raised
\* it, and the locals assigned before it.
Raise(exception, at, adj, cls) ==
  [raised |-> exception, reached |-> at, adj_list |-> adj, clusters |-> cls,
   groups |-> <<>>]

\* UMIClusterer.__call__(umis, counts, threshold): max() of an empty list
\* raises ValueError, the assert raises AssertionError, and an attribute
\* __init__ never assigned raises AttributeError where it is first read.
UMIClusterer_call(slf, us, counts, t) ==
  LET len_umis == {Len(us[i]) : i \in DOMAIN us}
  IN IF len_umis = {} THEN Raise("ValueError", "assert", None, <<>>)
     ELSE IF ~lengths_agree(len_umis)
     THEN Raise("AssertionError", "assert", None, <<>>)
     ELSE IF slf.get_adj_list = Unbound
     THEN Raise("AttributeError", "get_adj_list", None, <<>>)
     ELSE
       LET adj == get_adj_list(slf, us, counts, t)
           cls == get_connected_components(slf, us, adj, counts)
       IN IF /\ slf.get_groups = "_group_adjacency"
             /\ group_adjacency_raises(cls, adj, counts, us)
          THEN Raise("TypeError", "get_groups", adj, cls)
          ELSE [raised |-> "none", reached |-> "return", adj_list |-> adj,
                clusters |-> cls,
                groups |-> get_groups(slf, cls, adj, counts, us)]

(***************************************************************************)
(* ReadClusterer.__call__.                                                 *)
(***************************************************************************)

\* counts = {umi: bundle[umi]["count"] for umi in umis}
counts_of(bndl) == [umi \in DOMAIN bndl |-> bndl[umi].count]

\* As ReadClusterer_result, counting only the representative's reads.
ReadClusterer_result_first_count(bndl, counts, cls, dedup) ==
  IF dedup
  THEN [reads |-> [i \in 1..Len(cls) |-> bndl[cls[i][1]].read],
        final_umis |-> [i \in 1..Len(cls) |-> cls[i][1]],
        umi_counts |-> [i \in 1..Len(cls) |-> counts[cls[i][1]]]]
  ELSE [reads |-> bndl, final_umis |-> cls, umi_counts |-> counts]

\* The tuple (reads, final_umis, umi_counts) built from the groups the
\* UMIClusterer returned (named clusters in ReadClusterer.__call__).
ReadClusterer_result(bndl, counts, cls, dedup) ==
  IF dedup
  THEN [reads |-> [i \in 1..Len(cls) |-> bndl[cls[i][1]].read],
        final_umis |-> [i \in 1..Len(cls) |-> cls[i][1]],
        umi_counts |-> [i \in 1..Len(cls) |-> sum_counts(cls[i], counts)]]
  ELSE [reads |-> bndl, final_umis |-> cls, umi_counts |-> counts]

(***************************************************************************)
(* The state machine: a bundle arrives, a ReadClusterer is constructed     *)
(* for a method name, and is then called with a threshold and a mode.      *)
(***************************************************************************)

\* The read handle kept in the bundle for a barcode; opaque to the code.
ReadOf(umi) == <<"read", umi>>

\* The key orders of the bundles: up to MaxUmis barcodes of equal length,
\* or up to MaxMixedUmis barcodes among which one is shorter.
KeyOrders ==
  {s \in UNION {[1..n -> Barcodes] : n \in 0..MaxUmis} : Injective(s)}
  \cup
  {s \in UNION {[1..n -> Barcodes \cup ShortBarcodes] : n \in 1..MaxMixedUmis} :
     Injective(s)}

Bundles(keys) ==
  {[umi \in Range(keys) |-> [count |-> c[umi], read |-> ReadOf(umi)]] :
     c \in [Range(keys) -> Counts]}

\* No breadth_first_search is being followed step by step.
NoSearch ==
  [pc |-> "idle", adj |-> <<>>, start |-> <<>>, node |-> <<>>,
   searched |-> {}, found |-> {}, queue |-> {}, expanded |-> <<>>,
   result |-> {}]

Init ==
  /\ pc = "new"
  /\ self = NoAttributes
  /\ umis \in KeyOrders
  /\ bundle \in Bundles(umis)
  /\ threshold = 0
  /\ deduplicate = TRUE
  /\ raised = "none"
  /\ reached = "none"
  /\ adj_list = None
  /\ clusters = <<>>
  /\ groups = <<>>
  /\ reads = <<>>
  /\ final_umis = <<>>
  /\ umi_counts = <<>>
  /\ search = NoSearch

\* ReadClusterer.__init__(cluster_method): constructs the UMIClusterer.
Construct(cluster_method) ==
  /\ pc = "new"
  /\ pc' = "constructed"
  /\ self' = UMIClusterer_init(cluster_method)
  /\ UNCHANGED <<umis, bundle, threshold, deduplicate, raised, reached,
                 adj_list, clusters, groups, reads, final_umis, umi_counts,
                 search>>

\* ReadClusterer.__call__(bundle, threshold, deduplicate=dedup), the call
\* of the UMIClusterer included.  A call reads self and leaves it as it
\* is, so a behaviour follows each clusterer through one call.
Call(t, dedup) ==
  /\ pc = "constructed"
  /\ \E r \in {UMIClusterer_call(self, umis, counts_of(bundle), t)} :
     LET counts == counts_of(bundle)
         empty_group == \E i \in 1..Len(r.groups) : r.groups[i] = <<>>
         failed == r.raised # "none" \/ (dedup /\ empty_group)
         out == ReadClusterer_result(bundle, counts, r.groups, dedup)
     IN /\ threshold' = t
        /\ deduplicate' = dedup
        /\ raised' = IF r.raised = "none" /\ failed THEN "IndexError"
                     ELSE r.raised
        /\ reached' = r.reached
        /\ adj_list' = r.adj_list
        /\ clusters' = r.clusters
        /\ groups' = r.groups
        /\ pc' = IF failed THEN "raised" ELSE "returned"
        /\ reads' = IF failed THEN <<>> ELSE out.reads
        /\ final_umis' = IF failed THEN <<>> ELSE out.final_umis
        /\ umi_counts' = IF failed THEN <<>> ELSE out.umi_counts
  /\ UNCHANGED <<self, umis, bundle, search>>

Next ==
  \/ \E cluster_method \in MethodNames : Construct(cluster_method)
  \/ \E t \in Thresholds, dedup \in BOOLEAN : Call(t, dedup)

Spec == Init /\ [][Next]_vars

(***************************************************************************)
(* Properties.                                                             *)
(***************************************************************************)

counts == counts_of(bundle)

Called == pc \in {"returned", "raised"}

\* The call was made on a non-empty bundle of equal-length barcodes by a
\* clusterer constructed for one of the five strategies.
ValidCall ==
  /\ Called
  /\ self.cluster_method \in Strategies
  /\ umis # <<>>
  /\ \A i, j \in DOMAIN umis : Len(umis[i]) = Len(umis[j])

RECURSIVE Flatten(_)
Flatten(gs) == IF gs = <<>> THEN <<>> ELSE Head(gs) \o Flatten(Tail(gs))

\* The groups, concatenated, hold each barcode of S once and nothing else.
ExactlyOnce(gs, S) ==
  LET flat == Flatten(gs)
  IN Range(flat) = S /\ Len(flat) = Cardinality(S)

\* The least count that at least k barcodes of the bundle do not exceed:
\* the k-th smallest count.
KthCount(k) ==
  Min({counts[v] : v \in {w \in Range(umis) :
         Cardinality({x \in Range(umis) : counts[x] <= counts[w]}) >= k}})

\* The barcodes the percentile rule retains: all of a single-barcode
\* bundle, else those whose count exceeds a hundredth of the median count
\* (the median being the mean of the two middle counts).
Retained ==
  IF Len(umis) = 1 THEN Range(umis)
  ELSE {u \in Range(umis) :
          200 * counts[u] > KthCount((Len(umis) + 1) \div 2)
                              + KthCount((Len(umis) \div 2) + 1)}

\* C1 as stated: for every strategy, a call on a non-empty bundle of
\* equal-length barcodes returns groups that, concatenated, contain every
\* input barcode exactly once.
C1_GroupCoverageEveryStrategy ==
  ValidCall => pc = "returned" /\ ExactlyOnce(groups, Range(umis))

\* C1 amended: the groups contain every input barcode exactly once under
\* unique, directional, adjacency and cluster; under percentile they are
\* singletons that contain exactly the retained barcodes, each once, so a
\* barcode whose count is at most median/100 is in no group.
C1_GroupCoverage ==
  ValidCall =>
    /\ pc = "returned"
    /\ IF self.cluster_method = "percentile"
       THEN /\ ExactlyOnce(groups, Retained)
            /\ \A i \in DOMAIN groups : Len(groups[i]) = 1
       ELSE ExactlyOnce(groups, Range(umis))

\* C1 witness: directional clustering returned groups for a bundle in which
\* two components share a barcode, and one group has several members.
C1_Witness ==
  /\ pc = "returned"
  /\ self.cluster_method = "directional"
  /\ \E i, j \in DOMAIN clusters : i # j /\ clusters[i] \cap clusters[j] # {}
  /\ \E i \in DOMAIN groups : Len(groups[i]) > 1

GraphComponents ==
  /\ pc = "returned"
  /\ self.get_connected_components = "_get_connected_components_adjacency"

\* C2 as stated: for the Adjacency and the Directional graph builder, the
\* clusters of the graph Component Finder partition the input barcode set:
\* their union is the input set and they are pairwise disjoint.
C2_PartitionEveryBuilder ==
  GraphComponents =>
    /\ UNION Range(clusters) = Range(umis)
    /\ \A i, j \in DOMAIN clusters :
         i # j => clusters[i] \cap clusters[j] = {}

\* C2 amended: the union of the clusters is the input set for both
\* builders and no cluster is empty; the clusters are pairwise disjoint for
\* the Adjacency builder, while under the Directional builder two clusters
\* may share a barcode (one that two unlinked barcodes both point to).
C2_Partition ==
  GraphComponents =>
    /\ UNION Range(clusters) = Range(umis)
    /\ \A i \in DOMAIN clusters : clusters[i] # {}
    /\ self.get_adj_list = "_get_adj_list_adjacency" =>
         \A i, j \in DOMAIN clusters :
           i # j => clusters[i] \cap clusters[j] = {}

\* C2 witness: the Adjacency builder's graph was split into several
\* clusters, one of them with several barcodes.
C2_Witness ==
  /\ GraphComponents
  /\ self.get_adj_list = "_get_adj_list_adjacency"
  /\ Len(clusters) > 1
  /\ \E i \in DOMAIN clusters : Cardinality(clusters[i]) > 1

\* The number of groups the same clusterer returns for the same bundle, in
\* the same iteration order, at threshold t.
GroupsAt(t) == Len(UMIClusterer_call(self, umis, counts, t).groups)

ClustersAt(t) == Len(UMIClusterer_call(self, umis, counts, t).clusters)

\* C3 as stated: under directional, adjacency and cluster, for thresholds
\* t1 <= t2 the number of groups returned at t2 is at most the number
\* returned at t1.
C3_GroupsMonotoneEveryStrategy ==
  (pc = "returned"
     /\ self.cluster_method \in {"directional", "adjacency", "cluster"}) =>
    \A t2 \in Thresholds : threshold <= t2 => GroupsAt(t2) <= Len(groups)

\* C3 amended: under directional and cluster, for thresholds t1 <= t2 the
\* number of groups at t2 is at most the number at t1; under adjacency
\* that holds of the number of clusters, not of the number of groups.
C3_GroupsMonotone ==
  /\ (pc = "returned" /\ self.cluster_method \in {"directional", "cluster"}) =>
       \A t2 \in Thresholds : threshold <= t2 => GroupsAt(t2) <= Len(groups)
  /\ (pc = "returned" /\ self.cluster_method = "adjacency") =>
       \A t2 \in Thresholds : threshold <= t2 => ClustersAt(t2) <= Len(clusters)

\* C3 witness: a directional call whose number of groups drops strictly at
\* a larger threshold.
C3_Witness ==
  /\ pc = "returned"
  /\ self.cluster_method = "directional"
  /\ \E t2 \in Thresholds : threshold < t2 /\ GroupsAt(t2) < Len(groups)

\* C4 as stated: a clusterer constructed with a name outside the five
\* strategies fails at construction, so that every clusterer that exists,
\* and every one a clustering call is made on, has one of the five names.
C4_UnknownStrategyRejected ==
  pc # "new" => self.cluster_method \in Strategies

\* C5 as stated: a clustering call with zero barcodes returns an empty list
\* of groups and raises no error, for every strategy and threshold.
C5_EmptyInputReturnsNoGroups ==
  (Called /\ self.cluster_method \in Strategies /\ umis = <<>>) =>
    pc = "returned" /\ raised = "none" /\ groups = <<>>

MixedLengths == \E i, j \in DOMAIN umis : Len(umis[i]) # Len(umis[j])

\* C6: for every strategy, a call whose barcodes differ in length fails
\* with the assertion on the lengths, before the graph builder, the
\* component finder or the group builder ran: no adjacency structure, no
\* clusters, no groups and no result.
C6_LengthMismatchFailsFirst ==
  (Called /\ self.cluster_method \in Strategies /\ MixedLengths) =>
    /\ pc = "raised"
    /\ raised = "AssertionError"
    /\ reached = "assert"
    /\ adj_list = None
    /\ clusters = <<>>
    /\ groups = <<>>
    /\ final_umis = <<>>

\* C6 witness: a call of an adjacency clusterer on barcodes of two lengths
\* raised.
C6_Witness ==
  /\ pc = "raised"
  /\ self.cluster_method = "adjacency"
  /\ MixedLengths
  /\ raised = "AssertionError"

C8_UniqueSingletons ==
  (ValidCall /\ self.cluster_method = "unique") =>
    /\ pc = "returned"
    /\ Len(groups) = Cardinality(Range(umis))
    /\ \A i \in DOMAIN groups : Len(groups[i]) = 1
    /\ {groups[i][1] : i \in DOMAIN groups} = Range(umis)

\* C8 witness: a unique clusterer returned for a single barcode the group
\* list [[barcode]], and so took the one-cluster branch.
C8_Witness ==
  /\ pc = "returned"
  /\ self.cluster_method = "unique"
  /\ Len(umis) = 1
  /\ groups = <<(<<umis[1]>>)>>

RECURSIVE SumOver(_, _)
SumOver(S, f) ==
  IF S = {} THEN 0
  ELSE LET x == CHOOSE y \in S : TRUE IN f[x] + SumOver(S \ {x}, f)

\* C9: in deduplicate mode ReadClusterer returns one result per group, in
\* group order: the read the bundle holds for the group's first barcode,
\* that barcode, and the sum of the bundle counts of the group's members;
\* in annotate mode it returns the bundle unchanged with the list of groups.
C9_ReadClustererResult ==
  pc = "returned" =>
    IF deduplicate
    THEN /\ Len(reads) = Len(groups)
         /\ Len(final_umis) = Len(groups)
         /\ Len(umi_counts) = Len(groups)
         /\ \A i \in DOMAIN groups :
              /\ final_umis[i] = groups[i][1]
              /\ reads[i] = bundle[groups[i][1]].read
              /\ umi_counts[i] = SumOver(Range(groups[i]), counts)
    ELSE /\ reads = bundle
         /\ final_umis = groups

\* C9 witness: a deduplicating call returned fewer results than the bundle
\* has barcodes, so some result merges the counts of several barcodes.
C9_Witness ==
  /\ pc = "returned"
  /\ deduplicate
  /\ \E i \in DOMAIN groups : Len(groups[i]) > 1 /\ umi_counts[i] > BigCount

\* C10: for every strategy and valid input, the first barcode of each
\* group has a count at least that of every barcode of the group, so the
\* representative that deduplication picks is a highest-count member.
C10_RepresentativeHasHighestCount ==
  (pc = "returned" /\ self.cluster_method \in Strategies) =>
    /\ \A i \in DOMAIN groups : \A j \in DOMAIN groups[i] :
         counts[groups[i][1]] >= counts[groups[i][j]]
    /\ deduplicate =>
         \A i \in DOMAIN groups : \A u \in Range(groups[i]) :
           counts[final_umis[i]] >= counts[u]

\* C10 witness: a cluster clusterer merged two barcodes of the highest
\* count and a rarer one, the rarer one first in iteration order, into one
\* group.
C10_Witness ==
  /\ pc = "returned"
  /\ self.cluster_method = "cluster"
  /\ Len(umis) = 3
  /\ Len(groups) = 1
  /\ counts[umis[1]] = 1
  /\ counts[umis[2]] = BigCount /\ counts[umis[3]] = BigCount

\* The barcodes of cluster that the barcodes in lead account for: the
\* barcodes in lead and everything in their neighbour lists.
Dominates(lead, cluster) ==
  \A u \in cluster :
    u \in Range(lead) \/ \E k \in DOMAIN lead : u \in Range(adj_list[lead[k]])

\* lead is a prefix of cluster in some descending count order: distinct
\* members, counts never rising, no member left out with a higher count.
CountPrefix(lead, cluster) ==
  /\ Range(lead) \subseteq cluster
  /\ Injective(lead)
  /\ \A k \in 1..(Len(lead) - 1) : counts[lead[k]] >= counts[lead[k + 1]]
  /\ \A u \in cluster \ Range(lead) :
       \A k \in DOMAIN lead : counts[lead[k]] >= counts[u]

\* The first barcodes of the groups that start in cluster, in group order.
GroupHeads(cluster) ==
  LET at == SelectSeq([i \in DOMAIN groups |-> i],
                      LAMBDA i : groups[i][1] \in cluster)
  IN [k \in DOMAIN at |-> groups[at[k]][1]]

\* C11: for every cluster of two or more barcodes that the component finder
\* made from an Adjacency-rule graph, _get_best_min_account returns a
\* non-empty list, never None: a prefix of the cluster in descending count
\* order that accounts for the whole cluster, while no shorter prefix does;
\* under the adjacency strategy these are the first barcodes of the
\* cluster's groups.
C11_MinAccountShortestPrefix ==
  (pc = "returned" /\ self.get_adj_list = "_get_adj_list_adjacency") =>
    \A i \in DOMAIN clusters :
      Cardinality(clusters[i]) >= 2 =>
        \A lead \in {_get_best_min_account(clusters[i], adj_list, counts, umis)} :
           /\ lead # None
           /\ Len(lead) >= 1
           /\ CountPrefix(lead, clusters[i])
           /\ Dominates(lead, clusters[i])
           /\ \A k \in 1..(Len(lead) - 1) :
                ~Dominates(SubSeq(lead, 1, k), clusters[i])
           /\ self.cluster_method = "adjacency" =>
                GroupHeads(clusters[i]) = lead

\* C11 witness: an adjacency call in which one cluster needs two or more
\* lead barcodes, so that its first barcode alone does not account for it.
C11_Witness ==
  /\ pc = "returned"
  /\ self.cluster_method = "adjacency"
  /\ \E i \in DOMAIN clusters :
       /\ Cardinality(clusters[i]) >= 3
       /\ Len(_get_best_min_account(clusters[i], adj_list, counts, umis)) >= 2

(***************************************************************************)
(* breadth_first_search, step by step.  (list(queue))[0] is the first      *)
(* element of a set in its iteration order, which the code does not        *)
(* control: a step takes any element of the queue.                         *)
(***************************************************************************)

NodeOrder == <<AAA, AAT, ACC, CCC>>

\* The adjacency structures over the first n barcodes of NodeOrder with at
\* most MaxEdges neighbour-list entries in all: every key has a list of
\* keys, its own possibly among them.
AdjLists(n) ==
  LET keys == {NodeOrder[i] : i \in 1..n}
      edges == {es \in SUBSET (keys \X keys) : Cardinality(es) <= MaxEdges}
  IN {[k \in keys |-> list({e[2] : e \in {x \in es : x[1] = k}}, NodeOrder)] :
        es \in edges}

\* The state in which nothing has been called yet.
InitSearch ==
  /\ pc = "new"
  /\ self = NoAttributes
  /\ umis = <<>>
  /\ bundle = <<>>
  /\ threshold = 0
  /\ deduplicate = TRUE
  /\ raised = "none"
  /\ reached = "none"
  /\ adj_list = None
  /\ clusters = <<>>
  /\ groups = <<>>
  /\ reads = <<>>
  /\ final_umis = <<>>
  /\ umi_counts = <<>>
  /\ search = NoSearch

\* breadth_first_search(node, adj_list) up to the while loop; start keeps
\* the node it was called with, which the loop overwrites, and expanded
\* counts the passes of the loop made for each key.
SearchCall(node, adj) ==
  /\ search.pc = "idle"
  /\ search' = [pc |-> "loop", adj |-> adj, start |-> node, node |-> node,
                searched |-> {}, found |-> {node}, queue |-> {node},
                expanded |-> [k \in DOMAIN adj |-> 0], result |-> {}]
  /\ UNCHANGED <<pc, self, umis, bundle, threshold, deduplicate, raised,
                 reached, adj_list, clusters, groups, reads, final_umis,
                 umi_counts>>

\* As SearchStep, without queue.difference_update(searched).
SearchStep_keep_searched(node) ==
  /\ search.pc = "loop"
  /\ node \in search.queue
  /\ search' = [search EXCEPT
       !.node = node,
       !.found = @ \cup Range(search.adj[node]),
       !.searched = @ \cup {node},
       !.queue = @ \cup Range(search.adj[node]),
       !.expanded[node] = @ + 1]
  /\ UNCHANGED <<pc, self, umis, bundle, threshold, deduplicate, raised,
                 reached, adj_list, clusters, groups, reads, final_umis,
                 umi_counts>>

\* One pass of the while loop, for the node taken from the queue.
SearchStep(node) ==
  /\ search.pc = "loop"
  /\ node \in search.queue
  /\ search' = [search EXCEPT
       !.node = node,
       !.found = @ \cup Range(search.adj[node]),
       !.searched = @ \cup {node},
       !.queue = (@ \cup Range(search.adj[node])) \ (search.searched \cup {node}),
       !.expanded[node] = @ + 1]
  /\ UNCHANGED <<pc, self, umis, bundle, threshold, deduplicate, raised,
                 reached, adj_list, clusters, groups, reads, final_umis,
                 umi_counts>>

\* The loop ends with the queue empty: return found.
SearchReturn ==
  /\ search.pc = "loop"
  /\ search.queue = {}
  /\ search' = [search EXCEPT !.pc = "returned", !.result = search.found]
  /\ UNCHANGED <<pc, self, umis, bundle, threshold, deduplicate, raised,
                 reached, adj_list, clusters, groups, reads, final_umis,
                 umi_counts>>

\* The while loop of breadth_first_search and the return after it.
SearchLoop ==
  \/ \E node \in DOMAIN search.adj : SearchStep(node)
  \/ SearchReturn

NextSearch ==
  \/ /\ search.pc = "idle"
     /\ \E n \in 1..MaxNodes : \E adj \in AdjLists(n) :
          \E node \in DOMAIN adj : SearchCall(node, adj)
  \/ SearchLoop

\* The search is one sequential loop: once called it keeps running while it
\* can.
SpecSearch == InitSearch /\ [][NextSearch]_vars /\ WF_vars(SearchLoop)

\* The barcodes that a path of neighbour-list entries leads to from node,
\* node itself included.
Reachable(node, adj) ==
  LET keys == DOMAIN adj
      paths == UNION {[1..n -> keys] : n \in 1..Cardinality(keys)}
  IN {p[Len(p)] : p \in {q \in paths :
        /\ q[1] = node
        /\ \A i \in 1..(Len(q) - 1) : q[i + 1] \in Range(adj[q[i]])}}

\* C12: breadth_first_search terminates for every finite adjacency
\* structure whose lists name only keys, whichever queue element each step
\* takes; it returns exactly the start node and the nodes reachable from it
\* along neighbour-list entries (as the search that always takes the first
\* queue element does), and no node is expanded more than once.
C12_SearchTerminatesWithReachable ==
  /\ (search.pc = "loop") ~> (search.pc = "returned")
  /\ [](search.pc = "returned" =>
          /\ search.result = Reachable(search.start, search.adj)
          /\ search.result =
               breadth_first_search(search.start, search.adj, NodeOrder))
  /\ [](\A k \in DOMAIN search.expanded : search.expanded[k] <= 1)

\* C12 witness: a search returned after following a cycle back to its start
\* node, with a key of the structure left unreached.
C12_Witness ==
  /\ search.pc = "returned"
  /\ \E k \in search.result :
       k # search.start /\ search.start \in Range(search.adj[k])
  /\ search.result # DOMAIN search.adj

====
